---------------------------- MODULE Spec2Model ----------------------------
(***************************************************************************)
(* Decision workflow engine of ai-decision-agent.                          *)
(*                                                                         *)
(* Three specifications share the node operators below:                    *)
(*   Spec          the LangGraph workflow of app/graph/graph.py            *)
(*   SpecUnit      the node functions applied to arbitrary DecisionStates  *)
(*                 (as tests/test_core_nodes.py applies them)              *)
(*   SpecParallel  run_graph_parallel_streaming, the threaded handler      *)
(*                                                                         *)
(* Confidence and similarity are floats in the code; here they are         *)
(* integers in hundredths (0.70 is 70).  Texts are sequences of            *)
(* one-character strings.                                                  *)
(***************************************************************************)
EXTENDS Integers, Sequences, FiniteSets, TLC

VARIABLES
    pc,                 \* position of the driver (graph node, test step, handler phase)
    state,              \* the DecisionState dict threaded through the nodes
    route,              \* last value returned by should_retry ("none" before any call)
    cycles,             \* number of executions of the cycle body (retriever_node) so far
    routerPasses,       \* number of executions of confidence_router so far
    planner_queue,      \* Queue() filled by the stream_planner thread
    analyzer_queue,     \* Queue() filled by the stream_analyzer thread
    planner_thread,     \* position of the stream_planner thread
    analyzer_thread,    \* position of the stream_analyzer thread
    plan_accumulated,   \* handler local: last planner snapshot read
    analysis_accumulated, \* handler local: last analyzer snapshot read
    planner_done,       \* handler local
    analyzer_done,      \* handler local
    yielded,            \* last tuple the handler generator yielded ("none" before any)
    merges,             \* number of decision_node calls that returned
    last_saved,         \* the rows save_decision wrote to long-term memory, newest first, at most one kept
    result,             \* SpecUnit: the dict the node function under test returned
    response,           \* what follows "Confidence:" in the last reply to the decision prompt
    memory,             \* the session's calls on the long-term memory store (memory.py)
    file_manager        \* the FileManager singleton, its storage directory and the Hub registry

vars == <<pc, state, route, cycles, routerPasses, planner_queue, analyzer_queue,
          planner_thread, analyzer_thread, plan_accumulated, analysis_accumulated,
          planner_done, analyzer_done, yielded, merges, last_saved, result, response,
          memory, file_manager>>

threadVars == <<planner_queue, analyzer_queue, planner_thread, analyzer_thread,
                plan_accumulated, analysis_accumulated, planner_done, analyzer_done,
                yielded>>

---------------------------------------------------------------------------
(* Program constants *)

\* Python's None in a numeric field (confidence); parsed confidences are never negative
NoConfidence == -1

\* Python's None in a text field (plan, analysis, decision, rag_context)
NoText == <<"<None>">>

MAX_ATTEMPTS == 3

MIN_CONFIDENCE == 70

SIMILARITY_THRESHOLD == 75

CONFIDENCE_BONUS == 10

DEFAULT_CONFIDENCE == 75

MAX_MESSAGES == 10

\* decision_node: retrieve_similar_decisions(question, chroma_store, top_k=3)
TOP_K == 3

---------------------------------------------------------------------------
(* Bounds of the model *)

\* the similarity search returns 0..MaxDocs documents
MaxDocs == 2

\* retrieve_similar_decisions returns 0..MaxSimilar entries
MaxSimilar == 2

\* in the workflow specifications the search returns 0..MaxGraphSimilar entries
MaxGraphSimilar == 1

\* attempts values 0..MaxAttemptsInput are tried on the node functions in SpecUnit
MaxAttemptsInput == 4

\* the history counters cycles and routerPasses stop counting here
MaxCount == 5

\* a streamed generation yields at most MaxChunks accumulated snapshots
MaxChunks == 2

\* FileManager._files holds at most MaxFiles entries
MaxFiles == 3

---------------------------------------------------------------------------
(* Texts *)

UpperAlphabet ==
    <<"A","B","C","D","E","F","G","H","I","J","K","L","M",
      "N","O","P","Q","R","S","T","U","V","W","X","Y","Z">>

LowerAlphabet ==
    <<"a","b","c","d","e","f","g","h","i","j","k","l","m",
      "n","o","p","q","r","s","t","u","v","w","x","y","z">>

\* str.lower() on one character
LowerChar(c) ==
    IF \E i \in 1..26 : UpperAlphabet[i] = c
    THEN LowerAlphabet[CHOOSE i \in 1..26 : UpperAlphabet[i] = c]
    ELSE c

\* str.lower()
Lower(s) == [i \in 1..Len(s) |-> LowerChar(s[i])]

\* Python's `k in s` on strings
Contains(s, k) ==
    \E i \in 1..(Len(s) - Len(k) + 1) : SubSeq(s, i, i + Len(k) - 1) = k

\* str.strip(): drop leading and trailing blanks
RECURSIVE LStrip(_)
LStrip(s) == IF s # <<>> /\ Head(s) = " " THEN LStrip(Tail(s)) ELSE s

RECURSIVE RStrip(_)
RStrip(s) ==
    IF s # <<>> /\ s[Len(s)] = " " THEN RStrip(SubSeq(s, 1, Len(s) - 1)) ELSE s

Strip(s) == RStrip(LStrip(s))

KwAssumption == <<"a","s","s","u","m","p","t","i","o","n">>

KwUnclear == <<"u","n","c","l","e","a","r">>

KwUncertain == <<"u","n","c","e","r","t","a","i","n">>

\* the keyword list of should_retry
UncertaintyKeywords == {KwAssumption, KwUnclear, KwUncertain}

---------------------------------------------------------------------------
(* The DecisionState dict *)

\* dict.get(key, default)
Get(s, k, d) == IF k \in DOMAIN s THEN s[k] ELSE d

\* dict.update(updates): keys of updates overwrite, the others stay
DictUpdate(s, u) ==
    [k \in (DOMAIN s) \cup (DOMAIN u) |-> IF k \in DOMAIN u THEN u[k] ELSE s[k]]

---------------------------------------------------------------------------
(* app/graph/nodes/router.py *)

\* confidence_router with a strict comparison against MIN_CONFIDENCE
confidence_router_strict(s) ==
    LET attempts == Get(s, "attempts", 0)
        confidence == Get(s, "confidence", NoConfidence)
        updates == [attempts |-> attempts + 1]
    IN  IF confidence # NoConfidence
           /\ (confidence > MIN_CONFIDENCE \/ attempts >= MAX_ATTEMPTS - 1)
        THEN DictUpdate(updates, [decision_finalized |-> TRUE])
        ELSE updates

\* confidence_router locking one pass late (attempts >= MAX_ATTEMPTS)
confidence_router_late(s) ==
    LET attempts == Get(s, "attempts", 0)
        confidence == Get(s, "confidence", NoConfidence)
        updates == [attempts |-> attempts + 1]
    IN  IF confidence # NoConfidence
           /\ (confidence >= MIN_CONFIDENCE \/ attempts >= MAX_ATTEMPTS)
        THEN DictUpdate(updates, [decision_finalized |-> TRUE])
        ELSE updates

\* confidence_router counting only the passes that do not finalize
confidence_router_countsRetries(s) ==
    LET attempts == Get(s, "attempts", 0)
        confidence == Get(s, "confidence", NoConfidence)
    IN  IF confidence # NoConfidence
           /\ (confidence >= MIN_CONFIDENCE \/ attempts >= MAX_ATTEMPTS - 1)
        THEN [attempts |-> attempts, decision_finalized |-> TRUE]
        ELSE [attempts |-> attempts + 1]

\* confidence_router: the partial update it returns
confidence_router(s) ==
    LET attempts == Get(s, "attempts", 0)
        confidence == Get(s, "confidence", NoConfidence)
        updates == [attempts |-> attempts + 1]
    IN  IF confidence # NoConfidence
           /\ (confidence >= MIN_CONFIDENCE \/ attempts >= MAX_ATTEMPTS - 1)
        THEN DictUpdate(updates, [decision_finalized |-> TRUE])
        ELSE updates

\* `analysis and any(keyword in analysis.lower() for keyword in [...])`
AnalysisShowsUncertainty(analysis) ==
    /\ analysis # NoText
    /\ analysis # <<>>
    /\ \E kw \in UncertaintyKeywords : Contains(Lower(analysis), kw)

\* should_retry without the decision lock
should_retry_noLock(s) ==
    LET confidence == Get(s, "confidence", NoConfidence)
        attempts == Get(s, "attempts", 0)
        retrieved_docs == Get(s, "retrieved_docs", <<>>)
        analysis == Get(s, "analysis", NoText)
    IN  IF attempts >= MAX_ATTEMPTS THEN "end"
        ELSE IF confidence = NoConfidence THEN "retry"
        ELSE IF confidence >= MIN_CONFIDENCE THEN "end"
        ELSE IF Len(retrieved_docs) < 2 THEN "retry"
        ELSE IF AnalysisShowsUncertainty(analysis) THEN "retry"
        ELSE "end"

\* should_retry with the missing-confidence fallback ahead of the attempts ceiling
should_retry_noneFirst(s) ==
    IF Get(s, "decision_finalized", FALSE) THEN "end"
    ELSE LET confidence == Get(s, "confidence", NoConfidence)
             attempts == Get(s, "attempts", 0)
             retrieved_docs == Get(s, "retrieved_docs", <<>>)
             analysis == Get(s, "analysis", NoText)
         IN  IF confidence = NoConfidence THEN "retry"
             ELSE IF attempts >= MAX_ATTEMPTS THEN "end"
             ELSE IF confidence >= MIN_CONFIDENCE THEN "end"
             ELSE IF Len(retrieved_docs) < 2 THEN "retry"
             ELSE IF AnalysisShowsUncertainty(analysis) THEN "retry"
             ELSE "end"

\* should_retry matching the keywords against the analysis as written (no .lower())
should_retry_caseSensitive(s) ==
    IF Get(s, "decision_finalized", FALSE) THEN "end"
    ELSE LET confidence == Get(s, "confidence", NoConfidence)
             attempts == Get(s, "attempts", 0)
             retrieved_docs == Get(s, "retrieved_docs", <<>>)
             analysis == Get(s, "analysis", NoText)
         IN  IF attempts >= MAX_ATTEMPTS THEN "end"
             ELSE IF confidence = NoConfidence THEN "retry"
             ELSE IF confidence >= MIN_CONFIDENCE THEN "end"
             ELSE IF Len(retrieved_docs) < 2 THEN "retry"
             ELSE IF analysis # NoText
                     /\ \E kw \in UncertaintyKeywords : Contains(analysis, kw) THEN "retry"
             ELSE "end"

\* should_retry with the low-confidence heuristics ahead of the lock and the ceiling
should_retry_heuristicsFirst(s) ==
    LET confidence == Get(s, "confidence", NoConfidence)
        attempts == Get(s, "attempts", 0)
        retrieved_docs == Get(s, "retrieved_docs", <<>>)
        analysis == Get(s, "analysis", NoText)
    IN  IF confidence # NoConfidence /\ confidence < MIN_CONFIDENCE
           /\ (Len(retrieved_docs) < 2 \/ AnalysisShowsUncertainty(analysis))
        THEN "retry"
        ELSE IF Get(s, "decision_finalized", FALSE) THEN "end"
        ELSE IF attempts >= MAX_ATTEMPTS THEN "end"
        ELSE IF confidence = NoConfidence THEN "retry"
        ELSE "end"

should_retry(s) ==
    IF Get(s, "decision_finalized", FALSE) THEN "end"
    ELSE LET confidence == Get(s, "confidence", NoConfidence)
             attempts == Get(s, "attempts", 0)
             retrieved_docs == Get(s, "retrieved_docs", <<>>)
             analysis == Get(s, "analysis", NoText)
         IN  IF attempts >= MAX_ATTEMPTS THEN "end"
             ELSE IF confidence = NoConfidence THEN "retry"
             ELSE IF confidence >= MIN_CONFIDENCE THEN "end"
             ELSE IF Len(retrieved_docs) < 2 THEN "retry"
             ELSE IF AnalysisShowsUncertainty(analysis) THEN "retry"
             ELSE "end"

---------------------------------------------------------------------------
(* Sample texts *)

Q_PLAIN == <<"g","o","?">>

Q_PADDED == <<" ","g","o","?"," ">>

T_PLAN == <<"p","l","a","n">>

T_PROS == <<"p","r","o","s">>

T_ASSUMPTIONS == <<"A","s","s","u","m","p","t","i","o","n","s">>

T_UNCLEAR == <<"U","N","C","L","E","A","R">>

T_UNCERTAIN == <<"u","n","c","e","r","t","a","i","n">>

T_CLEAR == <<"c","l","e","a","r">>

T_PLAN_MD == <<"*","g","o","*">>

T_CONTEXT == <<"f","a","c","t">>

T_DECISION == <<"y","e","s">>

F_085 == <<"0",".","8","5">>

F_07 == <<"0",".","7">>

F_069 == <<"0",".","6","9">>

F_05 == <<"0",".","5">>

F_03 == <<"0",".","3","0">>

F_10 == <<"1",".","0">>

F_85PCT == <<"8","5","%">>

F_HIGH == <<"h","i","g","h">>

F_08DOT == <<"0",".","8",".">>

F_DOT == <<".">>

---------------------------------------------------------------------------
(* What the external collaborators can hand back *)

\* questions a caller can submit
Questions == { <<>>, <<" ">>, Q_PLAIN, Q_PADDED }

\* texts the planner's completion can produce
PlanTexts == { T_PLAN }

\* texts the analyzer's completion can produce
AnalysisTexts == { <<>>, T_PROS, T_ASSUMPTIONS, T_UNCLEAR, T_UNCERTAIN, T_CLEAR }

\* what follows "Confidence:" in the decision completion (NoText: no such field)
ConfidenceFields ==
    { NoText, F_085, F_07, F_069, F_05, F_03, F_10, F_85PCT, F_HIGH, F_08DOT, F_DOT }

\* the replies the workflow specifications draw from: high, low, above 1, unparsable, absent
GraphConfidenceFields == { NoText, F_069, F_05, F_85PCT, F_08DOT }

\* the analyses the workflow specifications draw from
GraphAnalysisTexts == { <<>>, T_PROS, T_ASSUMPTIONS }

\* similarity scores the long-term memory search can report
SimilarityValues == { 74, 75, 80 }

RECURSIVE SeqsUpTo(_, _)
\* all sequences over S of length 0..n
SeqsUpTo(S, n) ==
    IF n = 0 THEN { <<>> }
    ELSE LET shorter == SeqsUpTo(S, n - 1)
         IN  shorter \cup { Append(q, x) : q \in { r \in shorter : Len(r) = n - 1 }, x \in S }

\* retrieve_similar_decisions: the entries for a list of scores
SimilarDecisions(scores) ==
    [i \in 1..Len(scores) |-> [decision_id |-> i, similarity |-> scores[i]]]

\* results of retrieve_similar_decisions
SimilarDecisionLists ==
    { SimilarDecisions(q) : q \in SeqsUpTo(SimilarityValues, MaxSimilar) }

\* the results of retrieve_similar_decisions the workflow specifications draw from:
\* scores below and above SIMILARITY_THRESHOLD
GraphSimilarLists ==
    { SimilarDecisions(q) : q \in SeqsUpTo({74, 80}, MaxGraphSimilar) }

\* results of vectorstore.similarity_search
DocLists == { [i \in 1..n |-> "doc"] : n \in 0..MaxDocs }

Msg(role, content) == [role |-> role, content |-> content]

---------------------------------------------------------------------------
(* app/graph/nodes/intake.py *)

\* intake_node rejecting only the empty string (`not question`), blanks accepted
intake_raises_emptyOnly(s) ==
    LET question == Get(s, "question", NoText)
    IN  question = NoText \/ question = <<>>

\* `not question or not question.strip()`: intake_node raises ValueError
intake_raises(s) ==
    LET question == Get(s, "question", NoText)
    IN  question = NoText \/ question = <<>> \/ Strip(question) = <<>>

intake_node(s) ==
    LET normalized_question == Strip(s["question"])
    IN  [question |-> normalized_question,
         retrieved_docs |-> Get(s, "retrieved_docs", <<>>),
         plan |-> Get(s, "plan", NoText),
         analysis |-> Get(s, "analysis", NoText),
         decision |-> Get(s, "decision", NoText),
         confidence |-> Get(s, "confidence", NoConfidence),
         messages |-> << Msg("user", "question") >>,
         attempts |-> 0,
         decision_finalized |-> FALSE]

---------------------------------------------------------------------------
(* app/graph/nodes/planner.py, rag_node.py, retriever.py, summarize.py *)

planner_node(s, plan_text) == [plan |-> Strip(plan_text)]

\* rag_node with no context documents: empty authoritative context
rag_node(s) ==
    [rag_context |-> IF Get(s, "context_docs", <<>>) = <<>> THEN <<>> ELSE T_CONTEXT,
     messages |-> << Msg("assistant", "rag") >>]

\* rag_node has no handler around OpenAIEmbeddings(), Chroma(), add_texts or
\* similarity_search_with_score: with documents to index, a failing collaborator
\* (vdb_ok = FALSE) raises out of the node
rag_node_raises(s, vdb_ok) == Get(s, "context_docs", <<>>) # <<>> /\ ~vdb_ok

\* retriever_node's try covers only the vectorstore initialisation: past it, a missing
\* question raises ValueError and a failing similarity_search (search_ok = FALSE) raises
retriever_node_raises(s, vs_ok, search_ok) ==
    LET question == Get(s, "question", NoText)
    IN  vs_ok /\ (question = NoText \/ question = <<>> \/ ~search_ok)

\* retriever_node; vs_ok is FALSE when the vectorstore cannot be initialised
retriever_node(s, vs_ok, docs) ==
    IF ~vs_ok
    THEN [retrieved_docs |-> <<>>, messages |-> << Msg("assistant", "no_vectorstore") >>]
    ELSE [retrieved_docs |-> docs, messages |-> << Msg("assistant", "retrieved") >>]

\* summarize_node re-initialising the lock with the report fields
summarize_node_resetsLock(s) ==
    [report_html |-> "report", report_preview |-> "preview", decision_finalized |-> FALSE]

summarize_node(s) ==
    LET messages == Get(s, "messages", <<>>)
        n == Len(messages)
        compressed == << messages[1] >> \o SubSeq(messages, n - (MAX_MESSAGES - 1) + 1, n)
        report == [report_html |-> "report", report_preview |-> "preview"]
    IN  IF n > MAX_MESSAGES
        THEN DictUpdate(report,
                 [messages |-> Append(compressed, Msg("assistant", "compressed"))])
        ELSE report

---------------------------------------------------------------------------
(* app/graph/nodes/decision.py *)

Digits == <<"0","1","2","3","4","5","6","7","8","9">>

IsDigit(c) == \E i \in 1..10 : Digits[i] = c

DigitVal(c) == (CHOOSE i \in 1..10 : Digits[i] = c) - 1

RECURSIVE MatchDigitsDots(_)
\* the group ([\d.]+) of the confidence regex: the longest leading run of digits and dots
MatchDigitsDots(f) ==
    IF f # <<>> /\ (IsDigit(Head(f)) \/ Head(f) = ".")
    THEN <<Head(f)>> \o MatchDigitsDots(Tail(f))
    ELSE <<>>

\* re.search(r'Confidence[:\s]+([\d.]+)', content): the captured group, <<>> for no match
confidence_match(field) == IF field = NoText THEN <<>> ELSE MatchDigitsDots(field)

DotCount(tok) == Cardinality({ i \in 1..Len(tok) : tok[i] = "." })

\* float(tok) raises ValueError: more than one dot, or no digit at all
float_raises(tok) == DotCount(tok) > 1 \/ ~(\E i \in 1..Len(tok) : IsDigit(tok[i]))

RECURSIVE IntVal(_)
IntVal(ds) == IF ds = <<>> THEN 0 ELSE 10 * IntVal(SubSeq(ds, 1, Len(ds) - 1)) + DigitVal(ds[Len(ds)])

\* float(tok) in hundredths (tokens carry at most two fractional digits)
float_hundredths(tok) ==
    LET dot == IF DotCount(tok) = 0 THEN Len(tok) + 1
               ELSE CHOOSE i \in 1..Len(tok) : tok[i] = "."
        int_part == SubSeq(tok, 1, dot - 1)
        frac == SubSeq(tok, dot + 1, Len(tok))
        frac2 == IF Len(frac) = 0 THEN <<"0","0">>
                 ELSE IF Len(frac) = 1 THEN <<frac[1], "0">>
                 ELSE SubSeq(frac, 1, 2)
    IN  100 * IntVal(int_part) + IntVal(frac2)

Min(a, b) == IF a <= b THEN a ELSE b

RECURSIVE adjust_confidence_strict(_, _)
\* the bonus loop with a strict comparison against SIMILARITY_THRESHOLD
adjust_confidence_strict(confidence_value, similar_decisions) ==
    IF similar_decisions = <<>> THEN confidence_value
    ELSE adjust_confidence_strict(
             IF Head(similar_decisions).similarity > SIMILARITY_THRESHOLD
             THEN Min(confidence_value + CONFIDENCE_BONUS, 100)
             ELSE confidence_value,
             Tail(similar_decisions))

RECURSIVE adjust_confidence(_, _)
\* the loop `for sim in similar_decisions: if sim["similarity"] >= SIMILARITY_THRESHOLD: ...`
adjust_confidence(confidence_value, similar_decisions) ==
    IF similar_decisions = <<>> THEN confidence_value
    ELSE adjust_confidence(
             IF Head(similar_decisions).similarity >= SIMILARITY_THRESHOLD
             THEN Min(confidence_value + CONFIDENCE_BONUS, 100)
             ELSE confidence_value,
             Tail(similar_decisions))

\* the validation without `if not analysis: raise ...`
decision_rejects_questionOnly(s) ==
    LET question == Get(s, "question", NoText)
    IN  question = NoText \/ question = <<>>

\* `if not question: raise ...` and `if not analysis: raise ...`, before any collaborator is called
decision_rejects(s) ==
    LET question == Get(s, "question", NoText)
        analysis == Get(s, "analysis", NoText)
    IN  \/ question = NoText \/ question = <<>>
        \/ analysis = NoText \/ analysis = <<>>

\* decision_node raises: missing question or analysis, or float() of the captured group
decision_raises(s, field) ==
    LET tok == confidence_match(field)
    IN  decision_rejects(s) \/ (tok # <<>> /\ float_raises(tok))

\* the confidence decision_node parses from the reply, before the similarity bonus
parsed_confidence(field) ==
    LET tok == confidence_match(field)
    IN  IF tok = <<>> THEN DEFAULT_CONFIDENCE ELSE float_hundredths(tok)

\* counters of the model stop at MaxCount
Count(n) == IF n < MaxCount THEN n + 1 ELSE n

\* scores of the entries of a result list
Scores(similar_decisions) ==
    [i \in 1..Len(similar_decisions) |-> similar_decisions[i].similarity]

Take(n, q) == SubSeq(q, 1, Min(n, Len(q)))

\* the score Chroma gives a stored question identical to the query: distance 0
OWN_SCORE == 0

\* vectordb.similarity_search_with_score(question, k=top_k) over the collection: the
\* `indexed` copies of the session's own question rank first (no distance is smaller),
\* then the records of earlier sessions in the order the search ranks them
similarity_search_with_score(indexed, earlier, k) ==
    Take(k, [i \in 1..indexed |-> OWN_SCORE] \o Scores(earlier))

\* retrieve_similar_decisions that lets the search's exception through is not modelled:
\* `except Exception: return []`
retrieve_similar_decisions(query_ok, indexed, earlier) ==
    IF ~query_ok THEN <<>>
    ELSE SimilarDecisions(similarity_search_with_score(indexed, earlier, TOP_K))

\* every list a call of retrieve_similar_decisions can return in a session that has
\* indexed its question `indexed` times, given what earlier sessions left
SimilarResults(indexed, earlier_lists) ==
    { retrieve_similar_decisions(query_ok, indexed, earlier) :
          query_ok \in BOOLEAN, earlier \in earlier_lists }

\* how many of the session's own records are in a returned list: they rank first
OwnReturned(similar_decisions, indexed) == Min(indexed, Len(similar_decisions))

\* save_decision has no handler: embed_query or the SQLite insert raising leaves
\* nothing written ("db_failed"); add_decision_to_chroma raising leaves the row
\* written and the question not indexed ("index_failed")
PersistOutcomes == {"ok", "db_failed", "index_failed"}

\* save_decision is reached only when nothing raised before it
PersistTried(s, field) == IF decision_raises(s, field) THEN {"ok"} ELSE PersistOutcomes

\* how a call of decision_node ends
decision_outcome(s, field, persist) ==
    IF decision_rejects(s) THEN "rejected"
    ELSE IF decision_raises(s, field) THEN "parse_error"
    ELSE persist

\* the memory-store calls made by a call of decision_node that ends with `outcome`
memory_calls(m, outcome, similar_decisions) ==
    IF outcome = "rejected" THEN m
    ELSE [queries |-> Count(m.queries),
          indexed |-> IF outcome = "ok" THEN Count(m.indexed) ELSE m.indexed,
          own_returned |-> OwnReturned(similar_decisions, m.indexed),
          persist |-> IF outcome = "parse_error" THEN m.persist ELSE outcome]

\* the row save_decision(state) writes: the state as decision_node received it
save_decision(s) ==
    [question |-> s["question"],
     plan |-> IF Get(s, "plan", NoText) = NoText THEN <<>> ELSE s["plan"],
     analysis |-> IF Get(s, "analysis", NoText) = NoText THEN <<>> ELSE s["analysis"],
     decision |-> IF Get(s, "decision", NoText) = NoText THEN <<>> ELSE s["decision"],
     confidence |-> IF Get(s, "confidence", NoConfidence) = NoConfidence THEN 0
                    ELSE s["confidence"]]

decision_node(s, field, similar_decisions) ==
    LET confidence_value == adjust_confidence(parsed_confidence(field), similar_decisions)
        rag_context == Get(s, "rag_context", <<>>)
    IN  [decision |-> T_DECISION,
         confidence |-> confidence_value,
         messages |-> << Msg("assistant", "decision") >>
                      \o (IF similar_decisions # <<>>
                          THEN << Msg("system", "similar") >> ELSE <<>>)
                      \o (IF rag_context # NoText /\ rag_context # <<>>
                          THEN << Msg("system", "context") >> ELSE <<>>),
         similar_decisions |-> similar_decisions]

---------------------------------------------------------------------------
(* app/graph/state.py and app/graph/nodes/analyzer.py *)

\* how the graph applies a node's partial update to DecisionState:
\* messages are appended to the log, every other key is overwritten
graph_merge(s, u) ==
    [k \in (DOMAIN s) \cup (DOMAIN u) |->
        IF k \notin DOMAIN u THEN s[k]
        ELSE IF k = "messages" /\ k \in DOMAIN s THEN s[k] \o u[k]
        ELSE u[k]]

analyzer_node(s, analysis_text) ==
    [analysis |-> Strip(analysis_text), messages |-> << Msg("assistant", "analysis") >>]

---------------------------------------------------------------------------
(* The state every specification starts from, except for pc and state *)

NoYield == [kind |-> "none"]

\* the thread has not yet evaluated the arguments of its stream call
NoArgs == [evaluated |-> FALSE]

\* llm.invoke has not returned in this session
NoResponse == <<"<no response>">>

\* the workflow specifications do not touch the FileManager
NoFileManager == [none |-> TRUE]

NoFiles == file_manager = NoFileManager

\* no call on the memory store yet: queries counts retrieve_similar_decisions calls,
\* indexed the questions this session added to the Chroma collection, own_returned
\* how many of those the last query returned, persist how the last save_decision ended
NoMemoryCalls == [queries |-> 0, indexed |-> 0, own_returned |-> 0, persist |-> "none"]

IdleThreads ==
    /\ planner_queue = <<>>
    /\ analyzer_queue = <<>>
    /\ planner_thread = [status |-> "unstarted", accumulated |-> <<>>, chunks |-> 0,
                         args |-> NoArgs]
    /\ analyzer_thread = [status |-> "unstarted", accumulated |-> <<>>, chunks |-> 0,
                          args |-> NoArgs]
    /\ plan_accumulated = <<>>
    /\ analysis_accumulated = <<>>
    /\ planner_done = FALSE
    /\ analyzer_done = FALSE
    /\ yielded = NoYield

NoHistory ==
    /\ route = "none"
    /\ cycles = 0
    /\ routerPasses = 0
    /\ merges = 0
    /\ last_saved = <<>>
    /\ result = [none |-> TRUE]
    /\ response = NoResponse
    /\ memory = NoMemoryCalls

---------------------------------------------------------------------------
(* app/graph/graph.py: the compiled workflow *)

\* the DecisionState scripts/test_graph.py hands to compiled_graph.invoke
GraphInput(question) ==
    [messages |-> <<>>,
     question |-> question,
     plan |-> NoText,
     retrieved_docs |-> <<>>,
     analysis |-> NoText,
     decision |-> NoText,
     confidence |-> NoConfidence,
     attempts |-> 0]

Init ==
    /\ pc = "intake"
    /\ state \in { GraphInput(q) : q \in Questions }
    /\ IdleThreads
    /\ NoHistory
    /\ NoFiles

GraphIntake ==
    /\ pc = "intake"
    /\ IF intake_raises(state)
       THEN pc' = "error" /\ state' = state
       ELSE pc' = "planner" /\ state' = graph_merge(state, intake_node(state))
    /\ UNCHANGED <<route, cycles, routerPasses, merges, last_saved, result, response, memory, file_manager, threadVars>>

GraphPlanner ==
    /\ pc = "planner"
    /\ \E plan_text \in PlanTexts : state' = graph_merge(state, planner_node(state, plan_text))
    /\ pc' = "rag"
    /\ UNCHANGED <<route, cycles, routerPasses, merges, last_saved, result, response, memory, file_manager, threadVars>>

GraphRag ==
    /\ pc = "rag"
    /\ \E vdb_ok \in BOOLEAN :
          IF rag_node_raises(state, vdb_ok)
          THEN pc' = "error" /\ state' = state
          ELSE pc' = "retriever" /\ state' = graph_merge(state, rag_node(state))
    /\ UNCHANGED <<route, cycles, routerPasses, merges, last_saved, result, response, memory, file_manager, threadVars>>

GraphRetriever ==
    /\ pc = "retriever"
    /\ \E vs_ok \in BOOLEAN, search_ok \in BOOLEAN, docs \in DocLists :
          IF retriever_node_raises(state, vs_ok, search_ok)
          THEN pc' = "error" /\ state' = state
          ELSE /\ pc' = "analyzer"
               /\ state' = graph_merge(state, retriever_node(state, vs_ok, docs))
    /\ cycles' = Count(cycles)
    /\ UNCHANGED <<route, routerPasses, merges, last_saved, result, response, memory, file_manager, threadVars>>

GraphAnalyzer ==
    /\ pc = "analyzer"
    /\ \E analysis_text \in GraphAnalysisTexts :
          state' = graph_merge(state, analyzer_node(state, analysis_text))
    /\ pc' = "decision"
    /\ UNCHANGED <<route, cycles, routerPasses, merges, last_saved, result, response, memory, file_manager, threadVars>>

GraphDecision ==
    /\ pc = "decision"
    /\ \E field \in GraphConfidenceFields, similar \in SimilarResults(memory.indexed, GraphSimilarLists) :
       \E persist \in PersistTried(state, field) :
          LET outcome == decision_outcome(state, field, persist)
          IN  /\ pc' = IF outcome = "ok" THEN "router" ELSE "error"
              /\ response' = IF outcome = "rejected" THEN response ELSE field
              /\ memory' = memory_calls(memory, outcome, similar)
              /\ last_saved' = IF outcome \in {"ok", "index_failed"}
                               THEN << save_decision(state) >> ELSE last_saved
              /\ IF outcome = "ok"
                 THEN /\ state' = graph_merge(state, decision_node(state, field, similar))
                      /\ merges' = Count(merges)
                 ELSE UNCHANGED <<state, merges>>
    /\ UNCHANGED <<route, cycles, routerPasses, result, file_manager, threadVars>>

GraphRouter ==
    /\ pc = "router"
    /\ state' = graph_merge(state, confidence_router(state))
    /\ routerPasses' = Count(routerPasses)
    /\ pc' = "branch"
    /\ UNCHANGED <<route, cycles, merges, last_saved, result, response, memory, file_manager, threadVars>>

\* the conditional edge with "retry" wired to the entry point
GraphBranch_toIntake ==
    /\ pc = "branch"
    /\ route' = should_retry(state)
    /\ pc' = IF route' = "retry" THEN "intake" ELSE "summarize"
    /\ UNCHANGED <<state, cycles, routerPasses, merges, last_saved, result, response, memory, file_manager, threadVars>>

\* the conditional edge: should_retry picks "retriever" or "summarize"
GraphBranch ==
    /\ pc = "branch"
    /\ route' = should_retry(state)
    /\ pc' = IF route' = "retry" THEN "retriever" ELSE "summarize"
    /\ UNCHANGED <<state, cycles, routerPasses, merges, last_saved, result, response, memory, file_manager, threadVars>>

GraphSummarize ==
    /\ pc = "summarize"
    /\ state' = graph_merge(state, summarize_node(state))
    /\ pc' = "end"
    /\ UNCHANGED <<route, cycles, routerPasses, merges, last_saved, result, response, memory, file_manager, threadVars>>

Next ==
    \/ GraphIntake
    \/ GraphPlanner
    \/ GraphRag
    \/ GraphRetriever
    \/ GraphAnalyzer
    \/ GraphDecision
    \/ GraphRouter
    \/ GraphBranch
    \/ GraphSummarize

Spec == Init /\ [][Next]_vars

\* every node call returns, so the graph runner always takes its next step
FairSpec == Spec /\ WF_vars(Next)

---------------------------------------------------------------------------
(* tests/test_core_nodes.py: the router functions on arbitrary states *)

ConfidenceValues == { NoConfidence, 0, 30, 50, 69, 70, 85, 100 }

\* DecisionStates as the tests build them: every field free, the lock set, unset or missing
UnitStates ==
    LET base == { [messages |-> <<>>,
                   question |-> Q_PLAIN,
                   plan |-> NoText,
                   retrieved_docs |-> docs,
                   analysis |-> analysis,
                   decision |-> NoText,
                   confidence |-> confidence,
                   attempts |-> attempts] :
                  docs \in DocLists,
                  analysis \in AnalysisTexts \cup {NoText},
                  confidence \in ConfidenceValues,
                  attempts \in 0..MaxAttemptsInput }
    IN  base \cup { DictUpdate(b, [decision_finalized |-> f]) : b \in base, f \in BOOLEAN }

InitUnit ==
    /\ pc = "t_init"
    /\ state \in UnitStates
    /\ IdleThreads
    /\ NoHistory
    /\ NoFiles

\* result = confidence_router(state)
UnitRouter ==
    /\ pc = "t_init"
    /\ result' = confidence_router(state)
    /\ routerPasses' = Count(routerPasses)
    /\ pc' = "t_routed"
    /\ UNCHANGED <<state, route, cycles, merges, last_saved, response, memory, file_manager, threadVars>>

\* state.update(result)
UnitMerge ==
    /\ pc = "t_routed"
    /\ state' = DictUpdate(state, result)
    /\ pc' = "t_merged"
    /\ UNCHANGED <<route, cycles, routerPasses, merges, last_saved, result, response, memory, file_manager, threadVars>>

\* route = should_retry(state), on the state as built or after a router pass
UnitShouldRetry ==
    /\ pc \in {"t_init", "t_merged"}
    /\ route' = should_retry(state)
    /\ pc' = IF pc = "t_init" THEN "t_returned" ELSE "t_routed_returned"
    /\ UNCHANGED <<state, cycles, routerPasses, merges, last_saved, result, response, memory, file_manager, threadVars>>

\* result = decision_node(state) on a fresh state, as the decision tests call it
UnitDecision ==
    /\ pc = "t_init"
    /\ state["attempts"] = 0
    /\ state["confidence"] = NoConfidence
    /\ "decision_finalized" \notin DOMAIN state
    /\ \E field \in ConfidenceFields, similar \in SimilarResults(memory.indexed, SimilarDecisionLists) :
       \E persist \in PersistTried(state, field) :
          LET outcome == decision_outcome(state, field, persist)
          IN  /\ pc' = IF outcome = "ok" THEN "t_decided" ELSE "t_raised"
              /\ response' = IF outcome = "rejected" THEN response ELSE field
              /\ memory' = memory_calls(memory, outcome, similar)
              /\ last_saved' = IF outcome \in {"ok", "index_failed"}
                               THEN << save_decision(state) >> ELSE last_saved
              /\ IF outcome = "ok"
                 THEN /\ result' = decision_node(state, field, similar)
                      /\ merges' = Count(merges)
                 ELSE UNCHANGED <<result, merges>>
    /\ UNCHANGED <<state, route, cycles, routerPasses, file_manager, threadVars>>

NextUnit == UnitRouter \/ UnitMerge \/ UnitShouldRetry \/ UnitDecision

SpecUnit == InitUnit /\ [][NextUnit]_vars

---------------------------------------------------------------------------
(* app/ui/utils/markdown_utils.py *)

RECURSIVE StripEmphasis(_)
\* re.sub(r"\*(.*?)\*", r"\1", text): drop each pair of asterisks, left to right
StripEmphasis(text) ==
    IF \E i \in 1..Len(text) : text[i] = "*"
    THEN LET i == CHOOSE k \in 1..Len(text) :
                      text[k] = "*" /\ \A m \in 1..(k - 1) : text[m] # "*"
             rest == SubSeq(text, i + 1, Len(text))
         IN  IF \E j \in 1..Len(rest) : rest[j] = "*"
             THEN LET j == CHOOSE k \in 1..Len(rest) :
                               rest[k] = "*" /\ \A m \in 1..(k - 1) : rest[m] # "*"
                  IN  SubSeq(text, 1, i - 1) \o SubSeq(rest, 1, j - 1)
                      \o StripEmphasis(SubSeq(rest, j + 1, Len(rest)))
             ELSE text
    ELSE text

\* md_to_plain_text on texts whose only markup is *emphasis*
md_to_plain_text(md) == IF md = <<>> THEN <<>> ELSE Strip(StripEmphasis(md))

---------------------------------------------------------------------------
(* app/ui/handlers/graph_handler_parallel.py: run_graph_parallel_streaming *)

\* the text the planner completion streams, and the one the analyzer completion streams
PlanStream == T_PLAN_MD

AnalysisStream == T_PROS

\* the context documents ContextLoader.load() can return
ContextDocLists == { <<>>, << "doc" >> }

\* the state dict the handler builds before intake
HandlerInput(question, context_docs) ==
    [messages |-> <<>>,
     question |-> question,
     plan |-> NoText,
     retrieved_docs |-> <<>>,
     analysis |-> NoText,
     decision |-> NoText,
     confidence |-> NoConfidence,
     attempts |-> 0,
     report_html |-> "none",
     report_preview |-> "none",
     context_docs |-> context_docs,
     rag_context |-> NoText,
     decision_finalized |-> FALSE]

\* state.update(r); state["messages"].extend(r.get("messages", [])):
\* after the update state["messages"] is r's own list, which is then extended by itself
handler_merge(s, r) ==
    LET updated == DictUpdate(s, r)
    IN  [updated EXCEPT !["messages"] = @ \o Get(r, "messages", <<>>)]

\* the display text of one task in a progress tuple
Display(accumulated, done) ==
    LET text == IF accumulated # <<>> THEN md_to_plain_text(accumulated) ELSE <<>>
    IN  IF ~done /\ text # <<>> THEN << "[generating]" >> \o text ELSE text

\* _format_streaming_output
StreamingOutput(plan, analysis, decision) ==
    [kind |-> "progress", plan |-> plan, analysis |-> analysis,
     decision |-> decision, confidence |-> 0]

\* _format_error_output
ErrorOutput == [kind |-> "error", plan |-> << "[error]" >>, analysis |-> << "[error]" >>,
                decision |-> << "[error]" >>, confidence |-> 0]

\* OutputAssembler.assemble on the final state
FinalOutput(s) ==
    [kind |-> "final", plan |-> md_to_plain_text(s["plan"]),
     analysis |-> md_to_plain_text(s["analysis"]),
     decision |-> s["decision"], confidence |-> s["confidence"]]

InitParallel ==
    /\ pc = "h_intake"
    /\ state \in { HandlerInput(q, docs) : q \in Questions, docs \in ContextDocLists }
    /\ IdleThreads
    /\ NoHistory
    /\ NoFiles

historyVars == <<route, cycles, routerPasses, merges, last_saved, result, response,
                 memory, file_manager>>

localVars == <<plan_accumulated, analysis_accumulated, planner_done, analyzer_done>>

\* PHASE 1: intake; a ValueError is caught by the outer except, which yields the error tuple
HandlerIntake ==
    /\ pc = "h_intake"
    /\ IF intake_raises(state)
       THEN pc' = "h_error" /\ yielded' = ErrorOutput /\ state' = state
       ELSE pc' = "h_rag" /\ yielded' = yielded
            /\ state' = DictUpdate(state, intake_node(state))
    /\ UNCHANGED <<historyVars, localVars, planner_queue, analyzer_queue,
                   planner_thread, analyzer_thread>>

\* PHASE 2: rag_node
HandlerRag ==
    /\ pc = "h_rag"
    /\ \E vdb_ok \in BOOLEAN :
          IF rag_node_raises(state, vdb_ok)
          THEN pc' = "h_error" /\ yielded' = ErrorOutput /\ state' = state
          ELSE /\ pc' = "h_retriever" /\ yielded' = yielded
               /\ state' = handler_merge(state, rag_node(state))
    /\ UNCHANGED <<historyVars, localVars, planner_queue, analyzer_queue,
                   planner_thread, analyzer_thread>>

\* PHASE 3: retriever_node, then both threads are started
HandlerRetriever ==
    /\ pc = "h_retriever"
    /\ \E vs_ok \in BOOLEAN, search_ok \in BOOLEAN, docs \in DocLists :
          IF retriever_node_raises(state, vs_ok, search_ok)
          THEN /\ pc' = "h_error" /\ yielded' = ErrorOutput /\ state' = state
               /\ UNCHANGED <<planner_thread, analyzer_thread>>
          ELSE /\ pc' = "h_poll_planner" /\ yielded' = yielded
               /\ state' = handler_merge(state, retriever_node(state, vs_ok, docs))
               /\ planner_thread' = [planner_thread EXCEPT !.status = "running"]
               /\ analyzer_thread' = [analyzer_thread EXCEPT !.status = "running"]
    /\ UNCHANGED <<historyVars, localVars, planner_queue, analyzer_queue>>

\* `planner_node_stream(question, context_docs)`: the call reads nothing from the state
\* dict; context_docs is the list the handler also stored under state["context_docs"].
\* (question is the handler's own parameter, bound before the threads exist.)
stream_planner_args(s) == [evaluated |-> TRUE, context_docs |-> s["context_docs"]]

\* the analyzer call also handed the plan held in the state dict
stream_analyzer_args_withPlan(s) ==
    [evaluated |-> TRUE, rag_context |-> s["rag_context"],
     retrieved_docs |-> s["retrieved_docs"], plan |-> s["plan"]]

\* `analyzer_independent_stream(question, state["rag_context"], state["retrieved_docs"])`:
\* the two subscripts are evaluated inside the thread, when it first runs
stream_analyzer_args(s) ==
    [evaluated |-> TRUE, rag_context |-> s["rag_context"],
     retrieved_docs |-> s["retrieved_docs"]]

\* the arguments are evaluated once, at the thread's first step
PlannerArgs(args) == IF args.evaluated THEN args ELSE stream_planner_args(state)

AnalyzerArgs(args) == IF args.evaluated THEN args ELSE stream_analyzer_args(state)

\* a stream yielding each new piece alone (`yield chunk`) instead of the accumulation
NextSnapshots_delta(text, accumulated) ==
    { SubSeq(text, Len(accumulated) + 1, n) : n \in (Len(accumulated) + 1)..Len(text) }

\* the accumulated texts a stream can yield next: longer prefixes of its text
NextSnapshots(text, accumulated) ==
    { SubSeq(text, 1, n) : n \in (Len(accumulated) + 1)..Len(text) }

\* stream_planner: one more accumulated snapshot is put on the queue
PlannerChunk ==
    /\ planner_thread.status = "running"
    /\ planner_thread.chunks < MaxChunks
    /\ \E snapshot \in NextSnapshots(PlanStream, planner_thread.accumulated) :
          /\ planner_thread' = [planner_thread EXCEPT !.args = PlannerArgs(@),
                                                       !.accumulated = snapshot,
                                                       !.chunks = @ + 1]
          /\ planner_queue' = Append(planner_queue, [type |-> "chunk", data |-> snapshot])
    /\ UNCHANGED <<pc, state, historyVars, localVars, analyzer_queue, analyzer_thread, yielded>>

\* stream_planner: the generator is exhausted
PlannerDone ==
    /\ planner_thread.status = "running"
    /\ planner_thread' = [planner_thread EXCEPT !.args = PlannerArgs(@), !.status = "done"]
    /\ planner_queue' = Append(planner_queue, [type |-> "done", data |-> <<>>])
    /\ UNCHANGED <<pc, state, historyVars, localVars, analyzer_queue, analyzer_thread, yielded>>

\* stream_planner: the completion service raises
PlannerError ==
    /\ planner_thread.status = "running"
    /\ planner_thread' = [planner_thread EXCEPT !.args = PlannerArgs(@), !.status = "failed"]
    /\ planner_queue' = Append(planner_queue, [type |-> "error", data |-> <<>>])
    /\ UNCHANGED <<pc, state, historyVars, localVars, analyzer_queue, analyzer_thread, yielded>>

AnalyzerChunk ==
    /\ analyzer_thread.status = "running"
    /\ analyzer_thread.chunks < MaxChunks
    /\ \E snapshot \in NextSnapshots(AnalysisStream, analyzer_thread.accumulated) :
          /\ analyzer_thread' = [analyzer_thread EXCEPT !.args = AnalyzerArgs(@),
                                                         !.accumulated = snapshot,
                                                         !.chunks = @ + 1]
          /\ analyzer_queue' = Append(analyzer_queue, [type |-> "chunk", data |-> snapshot])
    /\ UNCHANGED <<pc, state, historyVars, localVars, planner_queue, planner_thread, yielded>>

AnalyzerDone ==
    /\ analyzer_thread.status = "running"
    /\ analyzer_thread' = [analyzer_thread EXCEPT !.args = AnalyzerArgs(@), !.status = "done"]
    /\ analyzer_queue' = Append(analyzer_queue, [type |-> "done", data |-> <<>>])
    /\ UNCHANGED <<pc, state, historyVars, localVars, planner_queue, planner_thread, yielded>>

AnalyzerError ==
    /\ analyzer_thread.status = "running"
    /\ analyzer_thread' = [analyzer_thread EXCEPT !.args = AnalyzerArgs(@), !.status = "failed"]
    /\ analyzer_queue' = Append(analyzer_queue, [type |-> "error", data |-> <<>>])
    /\ UNCHANGED <<pc, state, historyVars, localVars, planner_queue, planner_thread, yielded>>

\* `if not planner_done: try: planner_queue.get(timeout=0.1) ... except: pass`
\* an "error" message raises inside the try and the bare except swallows it
PollPlanner ==
    /\ pc = "h_poll_planner"
    /\ IF ~planner_done /\ planner_queue # <<>>
       THEN LET msg == Head(planner_queue)
            IN  /\ planner_queue' = Tail(planner_queue)
                /\ plan_accumulated' =
                      IF msg.type = "chunk" THEN msg.data ELSE plan_accumulated
                /\ planner_done' = IF msg.type = "done" THEN TRUE ELSE planner_done
       ELSE UNCHANGED <<planner_queue, plan_accumulated, planner_done>>
    /\ pc' = "h_poll_analyzer"
    /\ UNCHANGED <<state, historyVars, analysis_accumulated, analyzer_done,
                   analyzer_queue, planner_thread, analyzer_thread, yielded>>

\* the analyzer queue read with a blocking get(): the coordinator waits for a message
PollAnalyzer_blocking ==
    /\ pc = "h_poll_analyzer"
    /\ analyzer_done \/ analyzer_queue # <<>>
    /\ IF ~analyzer_done /\ analyzer_queue # <<>>
       THEN LET msg == Head(analyzer_queue)
            IN  /\ analyzer_queue' = Tail(analyzer_queue)
                /\ analysis_accumulated' =
                      IF msg.type = "chunk" THEN msg.data ELSE analysis_accumulated
                /\ analyzer_done' = IF msg.type = "done" THEN TRUE ELSE analyzer_done
       ELSE UNCHANGED <<analyzer_queue, analysis_accumulated, analyzer_done>>
    /\ pc' = "h_yield"
    /\ UNCHANGED <<state, historyVars, plan_accumulated, planner_done,
                   planner_queue, planner_thread, analyzer_thread, yielded>>

PollAnalyzer ==
    /\ pc = "h_poll_analyzer"
    /\ IF ~analyzer_done /\ analyzer_queue # <<>>
       THEN LET msg == Head(analyzer_queue)
            IN  /\ analyzer_queue' = Tail(analyzer_queue)
                /\ analysis_accumulated' =
                      IF msg.type = "chunk" THEN msg.data ELSE analysis_accumulated
                /\ analyzer_done' = IF msg.type = "done" THEN TRUE ELSE analyzer_done
       ELSE UNCHANGED <<analyzer_queue, analysis_accumulated, analyzer_done>>
    /\ pc' = "h_yield"
    /\ UNCHANGED <<state, historyVars, plan_accumulated, planner_done,
                   planner_queue, planner_thread, analyzer_thread, yielded>>

\* the progress tuple of this iteration
YieldProgress ==
    /\ pc = "h_yield"
    /\ yielded' = StreamingOutput(Display(plan_accumulated, planner_done),
                                  Display(analysis_accumulated, analyzer_done), <<>>)
    /\ pc' = "h_loop"
    /\ UNCHANGED <<state, historyVars, localVars, planner_queue, analyzer_queue,
                   planner_thread, analyzer_thread>>

\* the polling loop leaving as soon as either task has reported completion
LoopTest_either ==
    /\ pc = "h_loop"
    /\ IF ~(planner_done \/ analyzer_done)
       THEN pc' = "h_poll_planner" /\ UNCHANGED <<state, yielded>>
       ELSE /\ pc' = "h_decision"
            /\ state' = [state EXCEPT
                  !["plan"] = plan_accumulated,
                  !["analysis"] = analysis_accumulated,
                  !["messages"] = @ \o << Msg("assistant", "plan"),
                                          Msg("assistant", "analysis") >>]
            /\ yielded' = StreamingOutput(md_to_plain_text(plan_accumulated),
                                          md_to_plain_text(analysis_accumulated),
                                          << "[generating]" >>)
    /\ UNCHANGED <<historyVars, localVars, planner_queue, analyzer_queue,
                   planner_thread, analyzer_thread>>

\* `while not (planner_done and analyzer_done)`; after the loop the threads are joined,
\* plan and analysis are committed to the state and the "generating decision" tuple is yielded
LoopTest ==
    /\ pc = "h_loop"
    /\ IF ~(planner_done /\ analyzer_done)
       THEN pc' = "h_poll_planner" /\ UNCHANGED <<state, yielded>>
       ELSE /\ pc' = "h_decision"
            /\ state' = [state EXCEPT
                  !["plan"] = plan_accumulated,
                  !["analysis"] = analysis_accumulated,
                  !["messages"] = @ \o << Msg("assistant", "plan"),
                                          Msg("assistant", "analysis") >>]
            /\ yielded' = StreamingOutput(md_to_plain_text(plan_accumulated),
                                          md_to_plain_text(analysis_accumulated),
                                          << "[generating]" >>)
    /\ UNCHANGED <<historyVars, localVars, planner_queue, analyzer_queue,
                   planner_thread, analyzer_thread>>

\* PHASE 5: decision_node; a raise is caught by the outer except
HandlerDecision ==
    /\ pc = "h_decision"
    /\ \E field \in GraphConfidenceFields, similar \in SimilarResults(memory.indexed, GraphSimilarLists) :
       \E persist \in PersistTried(state, field) :
          LET outcome == decision_outcome(state, field, persist)
          IN  /\ pc' = IF outcome = "ok" THEN "h_summarize" ELSE "h_error"
              /\ yielded' = IF outcome = "ok" THEN yielded ELSE ErrorOutput
              /\ response' = IF outcome = "rejected" THEN response ELSE field
              /\ memory' = memory_calls(memory, outcome, similar)
              /\ last_saved' = IF outcome \in {"ok", "index_failed"}
                               THEN << save_decision(state) >> ELSE last_saved
              /\ IF outcome = "ok"
                 THEN /\ state' = handler_merge(state, decision_node(state, field, similar))
                      /\ merges' = Count(merges)
                 ELSE UNCHANGED <<state, merges>>
    /\ UNCHANGED <<route, cycles, routerPasses, result, file_manager, localVars,
                   planner_queue, analyzer_queue, planner_thread, analyzer_thread>>

\* PHASE 6 and the final tuple
HandlerSummarize ==
    /\ pc = "h_summarize"
    /\ state' = DictUpdate(state, summarize_node(state))
    /\ yielded' = FinalOutput(state')
    /\ pc' = "h_end"
    /\ UNCHANGED <<historyVars, localVars, planner_queue, analyzer_queue,
                   planner_thread, analyzer_thread>>

NextParallel ==
    \/ HandlerIntake
    \/ HandlerRag
    \/ HandlerRetriever
    \/ PlannerChunk
    \/ PlannerDone
    \/ PlannerError
    \/ AnalyzerChunk
    \/ AnalyzerDone
    \/ AnalyzerError
    \/ PollPlanner
    \/ PollAnalyzer
    \/ YieldProgress
    \/ LoopTest
    \/ HandlerDecision
    \/ HandlerSummarize

SpecParallel == InitParallel /\ [][NextParallel]_vars

---------------------------------------------------------------------------
(* Properties of the workflow (Spec, FairSpec) *)

Finalized(s) == Get(s, "decision_finalized", FALSE)

\* C1: in every state of a workflow session 0 <= attempts <= MAX_ATTEMPTS, and no
\* step of the session decreases attempts.
C1_AttemptsBounded ==
    /\ [](0 <= state["attempts"] /\ state["attempts"] <= MAX_ATTEMPTS)
    /\ [][state'["attempts"] >= state["attempts"]]_vars

\* a session that used all three passes and reached the end
C1_Witness == pc = "end" /\ state["attempts"] = MAX_ATTEMPTS /\ routerPasses = MAX_ATTEMPTS

\* C2: once decision_finalized is true, no later step of the session makes it false.
C2_FinalizedMonotonic == [][Finalized(state) => Finalized(state')]_vars

\* the summarizer has run on a locked state and the lock is still set
C2_Witness == pc = "end" /\ Finalized(state) /\ "report_html" \in DOMAIN state

\* C3: after every completed merge the confidence in Session State is within [0, 1].
C3_ConfidenceInRange ==
    merges > 0 => (0 <= state["confidence"] /\ state["confidence"] <= 100)

\* C4: the cycle body runs at most MAX_ATTEMPTS times and the session reaches the
\* end of the graph (or stops on a stage that raised instead of returning).
C4_BoundedRetries ==
    /\ [](cycles <= MAX_ATTEMPTS)
    /\ <>(pc = "end" \/ pc = "error")

\* a session that ran the cycle body three times and then summarized
C4_Witness == pc = "end" /\ cycles = MAX_ATTEMPTS /\ route = "end"

\* after the lock is set the workflow is at the conditional edge or past it
NoCycleAfterLock == Finalized(state) => pc \in {"branch", "summarize", "end"}

---------------------------------------------------------------------------
(* Properties of the router functions (SpecUnit) *)

ShouldRetryReturned == pc \in {"t_returned", "t_routed_returned"}

\* C5: whenever decision_finalized is true, should_retry returns "end", whatever
\* confidence, attempts, retrieved documents and analysis are.
C5_LockForcesEnd == (ShouldRetryReturned /\ Finalized(state)) => route = "end"

\* a locked state on which every later rule of should_retry would say retry
C5_Witness ==
    /\ pc = "t_returned"
    /\ Finalized(state)
    /\ state["attempts"] = 0
    /\ state["confidence"] = 30
    /\ state["retrieved_docs"] = <<>>
    /\ route = "end"

\* C6: whenever attempts >= MAX_ATTEMPTS, should_retry returns "end" for every
\* confidence, an absent one included, with or without the lock.
C6_CeilingForcesEnd ==
    (ShouldRetryReturned /\ state["attempts"] >= MAX_ATTEMPTS) => route = "end"

\* the ceiling alone decides: no lock, no confidence
C6_Witness ==
    /\ pc = "t_returned"
    /\ ~Finalized(state)
    /\ state["attempts"] = MAX_ATTEMPTS
    /\ state["confidence"] = NoConfidence
    /\ route = "end"

\* some keyword occurs in the text at position i, letters compared without case
MentionsMarker(text) ==
    /\ text # NoText
    /\ \E kw \in UncertaintyKeywords : \E i \in 1..Len(text) :
          /\ i + Len(kw) - 1 <= Len(text)
          /\ \A j \in 1..Len(kw) : LowerChar(text[i + j - 1]) = kw[j]

\* C7: with the lock unset and attempts < MAX_ATTEMPTS, should_retry returns "retry"
\* for an absent confidence, "end" for confidence >= MIN_CONFIDENCE, and otherwise
\* "retry" exactly when fewer than 2 documents were retrieved or the analysis
\* mentions "assumption", "unclear" or "uncertain" in any letter case.
C7_RetryTable ==
    (ShouldRetryReturned /\ ~Finalized(state) /\ state["attempts"] < MAX_ATTEMPTS) =>
        route = IF state["confidence"] = NoConfidence THEN "retry"
                ELSE IF state["confidence"] >= MIN_CONFIDENCE THEN "end"
                ELSE IF Len(state["retrieved_docs"]) < 2 \/ MentionsMarker(state["analysis"])
                     THEN "retry"
                ELSE "end"

\* low confidence, two documents, a capitalised marker: retry for the text alone
C7_Witness ==
    /\ pc = "t_returned"
    /\ ~Finalized(state)
    /\ state["attempts"] = 0
    /\ state["confidence"] = 50
    /\ Len(state["retrieved_docs"]) = 2
    /\ state["analysis"] = T_ASSUMPTIONS
    /\ route = "retry"

SetsLock(r) == "decision_finalized" \in DOMAIN r /\ r["decision_finalized"] = TRUE

\* C8 as stated: a router pass sets the lock whenever attempts after the increment
\* is >= MAX_ATTEMPTS - 1 or confidence >= MIN_CONFIDENCE, confidence present or not.
C8_LockAtSecondPass ==
    (pc = "t_routed"
     /\ (result["attempts"] >= MAX_ATTEMPTS - 1
         \/ (state["confidence"] # NoConfidence /\ state["confidence"] >= MIN_CONFIDENCE)))
    => SetsLock(result)

\* C8 amended: a router pass sets the lock whenever confidence is present and
\* attempts after the increment is >= MAX_ATTEMPTS or confidence >= MIN_CONFIDENCE.
C8_LockAtLastPass ==
    (pc = "t_routed"
     /\ state["confidence"] # NoConfidence
     /\ (result["attempts"] >= MAX_ATTEMPTS \/ state["confidence"] >= MIN_CONFIDENCE))
    => SetsLock(result)

\* the third pass with a low confidence on an unlocked state sets the lock
C8_Witness ==
    /\ pc = "t_routed"
    /\ ~Finalized(state)
    /\ state["confidence"] = 50
    /\ result["attempts"] = MAX_ATTEMPTS
    /\ SetsLock(result)

HighConfidence(s) == s["confidence"] # NoConfidence /\ s["confidence"] >= MIN_CONFIDENCE

\* C9: a router pass with confidence present and >= MIN_CONFIDENCE sets
\* decision_finalized, and the should_retry that follows returns "end", whatever
\* attempts is.
C9_HighConfidenceEnds ==
    /\ (pc \in {"t_routed", "t_merged", "t_routed_returned"} /\ HighConfidence(state))
        => SetsLock(result)
    /\ (pc = "t_routed_returned" /\ HighConfidence(state))
        => (Finalized(state) /\ route = "end")

\* the boundary value on a first pass
C9_Witness ==
    /\ pc = "t_routed_returned"
    /\ state["confidence"] = MIN_CONFIDENCE
    /\ state["attempts"] = 1
    /\ route = "end"

---------------------------------------------------------------------------
(* app/rag/file_manager.py and app/ui/handlers/rag_handlers.py *)

\* names save_uploaded_file can give a stored file (original name and a timestamp to
\* the second), and a file left in the storage directory or the registry by an
\* earlier process
StoredNames == { "a_1.txt", "a_2.txt", "b_1.txt" }

OLD_NAME == "old_0.txt"

Range(q) == { q[i] : i \in 1..Len(q) }

RECURSIVE Reverse(_)
Reverse(q) == IF q = <<>> THEN <<>> ELSE Append(Reverse(Tail(q)), Head(q))

RECURSIVE Without(_, _)
\* q with every occurrence of x removed
Without(q, x) ==
    IF q = <<>> THEN <<>>
    ELSE IF Head(q) = x THEN Without(Tail(q), x)
    ELSE << Head(q) >> \o Without(Tail(q), x)

\* FileManager(): _files empty, hf_persistence set or None; storage_dir lists the
\* directory by modification time, oldest first; registry is the document registry
\* on the Hub
InitFiles ==
    /\ pc = "f_ready"
    /\ state = [none |-> TRUE]
    /\ IdleThreads
    /\ NoHistory
    /\ file_manager \in { [hf_persistence |-> hf, files |-> <<>>,
                            storage_dir |-> dir, registry |-> reg] :
                               hf \in BOOLEAN,
                               dir \in { <<>>, << OLD_NAME >> },
                               reg \in { <<>>, << OLD_NAME >> } }

\* _load_from_hf_hub: the registry's filenames; load_registry returns [] when the
\* Hub cannot be read (hub_ok = FALSE)
load_from_hf_hub(fm, hub_ok) == IF hub_ok THEN fm.registry ELSE <<>>

\* refresh_state: _files is rebuilt from the registry when hf_persistence is set,
\* else from the storage directory, newest first
refresh_state(fm, hub_ok) ==
    [fm EXCEPT !.files = IF fm.hf_persistence
                         THEN load_from_hf_hub(fm, hub_ok)
                         ELSE Reverse(fm.storage_dir)]

\* save_uploaded_file: copy into the storage directory, append to _files; the
\* registry is not written
save_uploaded_file(fm, stored_name) ==
    [fm EXCEPT !.storage_dir = Append(Without(@, stored_name), stored_name),
               !.files = Append(@, stored_name)]

\* clear_all_files: _files emptied, every file unlinked, registry cleared when
\* hf_persistence is set and save_registry succeeds (registry_ok)
clear_all_files(fm, registry_ok) ==
    [fm EXCEPT !.files = <<>>,
               !.storage_dir = <<>>,
               !.registry = IF fm.hf_persistence /\ registry_ok THEN <<>> ELSE @]

\* handle_file_upload for one file
HandleFileUpload ==
    /\ pc \in {"f_ready", "f_saved", "f_loaded", "f_cleared"}
    /\ Len(file_manager.files) < MaxFiles
    /\ \E stored_name \in StoredNames :
          file_manager' = save_uploaded_file(file_manager, stored_name)
    /\ pc' = "f_saved"
    /\ UNCHANGED <<state, route, cycles, routerPasses, merges, last_saved, result,
                   response, memory, threadVars>>

\* init_ui_on_load: every page load calls refresh_state
InitUiOnLoad ==
    /\ pc \in {"f_ready", "f_saved", "f_loaded", "f_cleared"}
    /\ \E hub_ok \in BOOLEAN : file_manager' = refresh_state(file_manager, hub_ok)
    /\ pc' = "f_loaded"
    /\ UNCHANGED <<state, route, cycles, routerPasses, merges, last_saved, result,
                   response, memory, threadVars>>

\* handle_clear_files
HandleClearFiles ==
    /\ pc \in {"f_ready", "f_saved", "f_loaded", "f_cleared"}
    /\ \E registry_ok \in BOOLEAN :
          file_manager' = clear_all_files(file_manager, registry_ok)
    /\ pc' = "f_cleared"
    /\ UNCHANGED <<state, route, cycles, routerPasses, merges, last_saved, result,
                   response, memory, threadVars>>

NextFiles == HandleFileUpload \/ InitUiOnLoad \/ HandleClearFiles

SpecFiles == InitFiles /\ [][NextFiles]_vars

---------------------------------------------------------------------------
(* Properties of the parallel streaming handler (SpecParallel) *)

\* the thread put its "error" message and the coordinator has taken it off the queue
PlannerErrorRead == planner_thread.status = "failed" /\ planner_queue = <<>>

AnalyzerErrorRead == analyzer_thread.status = "failed" /\ analyzer_queue = <<>>

\* C10: once the coordinator has read a task's error it has stopped polling and the
\* caller has received the error tuple; and no merge runs in a session in which a
\* task failed.
C10_FailureSurfaced ==
    /\ (PlannerErrorRead \/ AnalyzerErrorRead) => (pc = "h_error" /\ yielded.kind = "error")
    /\ (planner_thread.status = "failed" \/ analyzer_thread.status = "failed")
        => (pc \notin {"h_decision", "h_summarize", "h_end"} /\ merges = 0)

\* the polling loop has been left: the handler is at the merge or past it
LoopExited ==
    \/ pc \in {"h_decision", "h_summarize", "h_end"}
    \/ (pc = "h_error" /\ planner_thread.status # "unstarted")

\* C11: the polling loop is left only when both tasks have reported completion, and
\* the plan and analysis then committed to the state are the last snapshot each task
\* produced; no message is left unread in a queue.
C11_LoopExitCommitsLast ==
    LoopExited =>
        /\ planner_done /\ analyzer_done
        /\ planner_thread.status = "done" /\ analyzer_thread.status = "done"
        /\ planner_queue = <<>> /\ analyzer_queue = <<>>
        /\ state["plan"] = planner_thread.accumulated
        /\ state["analysis"] = analyzer_thread.accumulated

\* both tasks streamed several snapshots and the handler committed the last of each
C11_Witness ==
    /\ pc = "h_decision"
    /\ planner_thread.chunks >= 2 /\ analyzer_thread.chunks >= 2
    /\ state["plan"] = planner_thread.accumulated
    /\ state["analysis"] = analyzer_thread.accumulated

---------------------------------------------------------------------------
(* Properties of the merge (decision_node) *)

\* C12: the row a successful merge persists carries the decision text and the adjusted
\* confidence this same merge returns, with the session's question, plan and analysis.
C12_RecordCarriesMerge ==
    (pc = "router" /\ merges > 0) =>
        /\ last_saved # <<>>
        /\ last_saved[1].question = state["question"]
        /\ last_saved[1].plan = state["plan"]
        /\ last_saved[1].analysis = state["analysis"]
        /\ last_saved[1].decision = state["decision"]
        /\ last_saved[1].confidence = state["confidence"]

\* k: the number of entries whose similarity reaches the threshold
BonusCount(similar_decisions) ==
    Cardinality({ i \in 1..Len(similar_decisions) :
                    similar_decisions[i].similarity >= SIMILARITY_THRESHOLD })

\* the confidence the claim expects for a raw confidence and a list of similar decisions
ExpectedConfidence(raw, similar_decisions) ==
    Min(raw + CONFIDENCE_BONUS * BonusCount(similar_decisions), 100)

\* C13: for a raw confidence c in [0, 1] the merge returns min(c + 0.10 * k, 1.0), k the
\* number of similar decisions with similarity >= 0.75, the boundary included.
C13_BonusFormula ==
    (pc = "t_decided" /\ parsed_confidence(response) \in 0..100) =>
        result["confidence"] =
            ExpectedConfidence(parsed_confidence(response), result["similar_decisions"])

\* raw 0.70 with similarities 0.80 and 0.75 (the boundary): two bonuses, 0.90
C13_Witness ==
    /\ pc = "t_decided"
    /\ response = F_07
    /\ Len(result["similar_decisions"]) = 2
    /\ result["similar_decisions"][1].similarity = 80
    /\ result["similar_decisions"][2].similarity = SIMILARITY_THRESHOLD
    /\ result["confidence"] = 90

\* in the workflow every merge starts again from the reply's own confidence
BonusOncePerMerge ==
    (pc = "router" /\ parsed_confidence(response) \in 0..100) =>
        state["confidence"] =
            ExpectedConfidence(parsed_confidence(response), state["similar_decisions"])

\* the reply has no Confidence field, or what follows "Confidence:" starts with no
\* number, or with a run of digits and dots that is not a number ("0.8.", ".")
Unparsable(field) ==
    \/ field = NoText
    \/ confidence_match(field) = <<>>
    \/ float_raises(confidence_match(field))

\* C14: for every reply whose Confidence field is absent or not a parsable number,
\* decision_node returns without raising and the confidence it returns is 0.75 plus
\* the similarity bonus.
C14_DefaultOnUnparsable ==
    (pc \in {"t_decided", "t_raised"} /\ response # NoResponse /\ Unparsable(response)
        /\ memory.persist \in {"none", "ok"}) =>
        /\ pc = "t_decided"
        /\ result["confidence"] =
               ExpectedConfidence(DEFAULT_CONFIDENCE, result["similar_decisions"])

---------------------------------------------------------------------------
(* Properties of a whole session *)

\* a is b or a leading part of b
IsPrefix(a, b) == Len(a) <= Len(b) /\ SubSeq(b, 1, Len(a)) = a

\* C15: the conversation log only grows by appending: the log before a stage is a
\* prefix of the log after it.
C15_LogAppendOnly == [][IsPrefix(state["messages"], state'["messages"])]_vars

\* the summarizer is about to run or has run (graph position or handler phase)
SummarizerReached == pc \in {"summarize", "end", "h_summarize", "h_end"}

\* C16: the summarizer runs only after the router has reached FINALIZED in this
\* session: at least one router pass took place and the last should_retry said "end".
C16_SummarizeAfterFinalized == SummarizerReached => (routerPasses >= 1 /\ route = "end")

\* rag_node has returned: the workflow input carries no rag_context key before it
RagCompleted == "rag_context" \in DOMAIN state

\* retriever_node has returned in the current cycle
RetrieverCompleted == cycles = routerPasses + 1

\* the stages after generation, in the order of the graph: the merge starts with plan
\* and analysis present, the router after this cycle's merge, the summarizer after
\* the router
MergeRouteSummarizeOrdered ==
    /\ pc = "decision" =>
           (state["plan"] # NoText /\ state["analysis"] # NoText /\ merges = routerPasses)
    /\ pc = "router" => merges = routerPasses + 1
    /\ pc = "summarize" => (routerPasses >= 1 /\ routerPasses = merges)

\* C17: neither the planner nor the analyzer starts before both retrievals have
\* completed, the merge starts only after both generation outputs, the router only
\* after the merge, the summarizer only after the router.
C17_GenerationAfterRetrieval ==
    /\ pc = "planner" => (RagCompleted /\ RetrieverCompleted)
    /\ pc = "analyzer" => (RagCompleted /\ RetrieverCompleted)
    /\ MergeRouteSummarizeOrdered

\* what the compiled graph does order: the planner runs once, before both retrievals;
\* the analyzer starts in every cycle after both retrievals; then merge, router, summarizer
GraphStageOrder ==
    /\ pc = "planner" => (~RagCompleted /\ cycles = 0)
    /\ pc = "analyzer" => (RagCompleted /\ RetrieverCompleted)
    /\ MergeRouteSummarizeOrdered

\* C18: intake executes once per session: no step returns to it, a "retry" outcome
\* transfers control to the retriever, and after intake attempts never decreases, the
\* lock is never unset and the conversation log is never cut back.
C18_IntakeOnce ==
    [][ /\ pc # "intake" => pc' # "intake"
        /\ (pc = "branch" /\ route' = "retry") => pc' = "retriever"
        /\ pc # "intake" =>
              /\ state'["attempts"] >= state["attempts"]
              /\ Finalized(state) => Finalized(state')
              /\ IsPrefix(state["messages"], state'["messages"]) ]_vars

\* a retry has handed control to the retriever, attempts and the log kept
C18_Witness ==
    /\ pc = "retriever"
    /\ route = "retry"
    /\ cycles = 1
    /\ state["attempts"] = 1
    /\ Len(state["messages"]) > 1

\* the question is empty or consists of blanks only
BlankQuestion(q) == \A i \in 1..Len(q) : q[i] = " "

\* no stage after intake has run and nothing was persisted
NothingAfterIntake ==
    /\ Get(state, "rag_context", NoText) = NoText
    /\ state["retrieved_docs"] = <<>> /\ cycles = 0
    /\ state["plan"] = NoText /\ state["analysis"] = NoText
    /\ planner_thread.status = "unstarted" /\ analyzer_thread.status = "unstarted"
    /\ state["decision"] = NoText /\ merges = 0 /\ response = NoResponse
    /\ routerPasses = 0
    /\ Get(state, "report_html", "none") = "none"
    /\ last_saved = <<>>

\* C19: with an empty or blank question intake fails with a validation error (the
\* handler yields the error tuple), no later stage is invoked and nothing is
\* persisted to long-term memory.
C19_BlankQuestionRejected ==
    BlankQuestion(state["question"]) =>
        /\ pc \in {"h_intake", "h_error", "intake", "error"}
        /\ pc = "h_error" => yielded = ErrorOutput
        /\ state["messages"] = <<>>
        /\ NothingAfterIntake

\* a question of blanks was rejected
C19_Witness ==
    /\ pc = "h_error"
    /\ state["question"] = <<" ">>
    /\ yielded = ErrorOutput
    /\ last_saved = <<>>

---------------------------------------------------------------------------
(* Properties of the progress tuples (SpecParallel) *)

\* C20 as stated: for each task, the text in every progress tuple is a prefix-or-equal
\* extension of that task's text in the previous progress tuple.
C20_EmittedTextMonotone ==
    [][(yielded.kind = "progress" /\ yielded'.kind = "progress") =>
          /\ IsPrefix(yielded.plan, yielded'.plan)
          /\ IsPrefix(yielded.analysis, yielded'.analysis)]_vars

\* C20 amended: for each task, the snapshot the coordinator holds is a prefix-or-equal
\* extension of the one it held before, and the text of a tuple emitted in the loop
\* is that snapshot in plain text, behind a badge while the task has not completed.
C20_HeldSnapshotMonotone ==
    [][ /\ IsPrefix(plan_accumulated, plan_accumulated')
        /\ IsPrefix(analysis_accumulated, analysis_accumulated')
        /\ (pc = "h_yield" /\ pc' = "h_loop") =>
              /\ yielded'.plan = Display(plan_accumulated, planner_done)
              /\ yielded'.analysis = Display(analysis_accumulated, analyzer_done) ]_vars

\* the held plan grew through two snapshots and was emitted in plain text with the badge
C20_Witness ==
    /\ pc = "h_loop"
    /\ planner_thread.chunks = 2
    /\ plan_accumulated = PlanStream
    /\ ~planner_done
    /\ yielded.kind = "progress"
    /\ yielded.plan = << "[generating]", "g", "o" >>

\* the message is a snapshot that is still in the queue
Undelivered(queue, i) == queue[i].type = "chunk"

\* the coordinator's step that reads the planner queue, and the one for the analyzer queue
PlannerPolled == pc = "h_poll_planner" /\ pc' = "h_poll_analyzer"

AnalyzerPolled == pc = "h_poll_analyzer" /\ pc' = "h_yield"

\* the tuple emitted at the end of an iteration is built from the snapshots held then
EmitsHeld ==
    (pc = "h_yield" /\ pc' = "h_loop") =>
        yielded' = StreamingOutput(Display(plan_accumulated, planner_done),
                                   Display(analysis_accumulated, analyzer_done), <<>>)

\* between reading a queue and emitting, the snapshot read is kept
HeldUntilEmitted ==
    /\ pc \in {"h_poll_analyzer", "h_yield"} => plan_accumulated' = plan_accumulated
    /\ pc = "h_yield" => analysis_accumulated' = analysis_accumulated

\* the coordinator never waits for a task: each of its two reads can be taken
\* whatever the queues hold
NeverBlocked ==
    /\ pc = "h_poll_planner" => ENABLED PollPlanner
    /\ pc = "h_poll_analyzer" => ENABLED PollAnalyzer

\* every snapshot in a queue is gone from it after the poll and is part of the held text
AllConsumed(queue, queue_after, held_after) ==
    \A i \in 1..Len(queue) :
        Undelivered(queue, i) =>
            (/\ \A j \in 1..Len(queue_after) : queue_after[j] # queue[i]
             /\ IsPrefix(queue[i].data, held_after))

\* the oldest message is taken off the queue and, if a snapshot, becomes the held text
OldestConsumed(queue, queue_after, held_after) ==
    /\ queue_after = Tail(queue)
    /\ Undelivered(queue, 1) => held_after = Head(queue).data

\* C21 as stated: every snapshot that is undelivered in a task's queue when the
\* coordinator polls that queue is consumed in that iteration and emitted at its end,
\* without the coordinator waiting for the other task.
C21_EverySnapshotWithinOneIteration ==
    /\ [][(PlannerPolled => AllConsumed(planner_queue, planner_queue', plan_accumulated'))
          /\ (AnalyzerPolled =>
                 AllConsumed(analyzer_queue, analyzer_queue', analysis_accumulated'))
          /\ HeldUntilEmitted
          /\ EmitsHeld]_vars
    /\ []NeverBlocked

\* C21 amended: the oldest undelivered message of each task is consumed in the
\* iteration that polls its queue, one message per task and iteration; a snapshot so
\* read is kept until the end of the iteration and the tuple emitted there is built
\* from it; the coordinator never waits for the other task.
C21_OldestWithinOneIteration ==
    /\ [][((PlannerPolled /\ ~planner_done /\ planner_queue # <<>>) =>
              OldestConsumed(planner_queue, planner_queue', plan_accumulated'))
          /\ ((AnalyzerPolled /\ ~analyzer_done /\ analyzer_queue # <<>>) =>
                 OldestConsumed(analyzer_queue, analyzer_queue', analysis_accumulated'))
          /\ HeldUntilEmitted
          /\ EmitsHeld]_vars
    /\ []NeverBlocked

\* the planner's snapshot was read and emitted while the analyzer, still running, had
\* produced nothing
C21_Witness ==
    /\ pc = "h_loop"
    /\ analyzer_thread.status = "running" /\ analyzer_thread.chunks = 0
    /\ planner_thread.chunks >= 1
    /\ planner_queue = <<>>
    /\ plan_accumulated = planner_thread.accumulated
    /\ yielded = StreamingOutput(Display(plan_accumulated, FALSE), <<>>, <<>>)

\* ---------------------------------------------------------------------------
\* C22: independence of the two generation tasks' inputs

TasksStarted == planner_thread.status # "unstarted"

TaskInputFields == {"rag_context", "retrieved_docs", "context_docs"}

\* what the handler put in the state dict for the tasks is never rewritten
InputsFixedOnceStarted ==
    TasksStarted => \A k \in TaskInputFields : state'[k] = state[k]

\* what each task was handed is exactly the evidence held by the handler:
\* no field of the other task's output is among it
InputsAreTheEvidence ==
    /\ planner_thread.args.evaluated =>
           planner_thread.args = [evaluated |-> TRUE,
                                  context_docs |-> state["context_docs"]]
    /\ analyzer_thread.args.evaluated =>
           analyzer_thread.args = [evaluated |-> TRUE,
                                   rag_context |-> state["rag_context"],
                                   retrieved_docs |-> state["retrieved_docs"]]

\* C22: the inputs of the Planner task (context_docs) and of the Analyzer task
\* (rag_context, retrieved_docs) are fixed before either task starts and hold
\* nothing produced by the other task: whenever a task evaluates its arguments,
\* and whatever the other task has produced by then, it receives the evidence
\* stored before the tasks were started, and that evidence is never rewritten.
C22_TaskInputsIndependent ==
    /\ []InputsAreTheEvidence
    /\ [][InputsFixedOnceStarted]_vars

\* the analyzer has evaluated its arguments and produced one snapshot while the
\* planner had already finished with output of its own
C22_Witness ==
    /\ analyzer_thread.args.evaluated /\ analyzer_thread.chunks = 1
    /\ analyzer_thread.args.rag_context # <<>>
    /\ planner_thread.status = "done" /\ planner_thread.chunks >= 1
    /\ pc \in {"h_poll_planner", "h_poll_analyzer", "h_yield", "h_loop"}

\* ---------------------------------------------------------------------------
\* C23: retrieval failures degrade to empty evidence

InRetrievalStage == pc \in {"rag", "retriever", "h_rag", "h_retriever"}

\* C23: if the vector retrieval collaborator fails at any point during
\* ContextRetrieval or HistoricalRetrieval (initialisation, indexing or the search
\* itself), the stage returns empty evidence and the session continues to the
\* generation stage: a retrieval stage entered with a valid question never ends
\* the session in error.
C23_RetrievalFailureContinues ==
    [][(InRetrievalStage /\ Get(state, "question", NoText) \notin {NoText, <<>>})
          => pc' \notin {"error", "h_error"}]_vars

\* ---------------------------------------------------------------------------
\* C24: memory-store failures during a merge

\* float() raises on what follows "Confidence:" in the reply
ReplyRaises(field) ==
    field # NoResponse /\ confidence_match(field) # <<>>
        /\ float_raises(confidence_match(field))

\* a merge the node accepts and whose reply parses: only the memory store can fail it
MergeStep ==
    /\ pc \in {"decision", "h_decision"}
    /\ ~decision_rejects(state)
    /\ ~ReplyRaises(response')

\* C24: if the long-term memory store fails during a merge, on querySimilar or on
\* persist, the session is not aborted: the merge proceeds and still yields a
\* decision and a confidence.
C24_MemoryFailureTolerated ==
    [][MergeStep => (/\ pc' \notin {"error", "h_error"}
                     /\ state'["decision"] # NoText
                     /\ state'["confidence"] # NoConfidence)]_vars

\* ---------------------------------------------------------------------------
\* C25: every failure ends the progress sequence with one error snapshot

\* a generation task failed and the coordinator took its "error" message
GenerationFailureRead == PlannerErrorRead \/ AnalyzerErrorRead

\* the handler emits its next tuple
Emits == yielded' # yielded

\* C25: for every failure raised by a stage of run_graph_parallel_streaming (intake,
\* retrieval, generation, merge), the progress sequence ends with exactly one error
\* snapshot: a stage that raises is followed by the error tuple, nothing is emitted
\* after the error tuple, and once a generation task's failure has been read the only
\* tuple still emitted is the error tuple.
C25_FailureEndsWithErrorSnapshot ==
    [][/\ (pc # "h_error" /\ pc' = "h_error") => yielded' = ErrorOutput
       /\ pc = "h_error" => ~Emits
       /\ (GenerationFailureRead /\ Emits) => yielded' = ErrorOutput]_vars

\* ---------------------------------------------------------------------------
\* C26: a merge without an analysis fails before touching any collaborator

AnalysisAbsent(s) == Get(s, "analysis", NoText) \in {NoText, <<>>}

\* decision_node is called and returns or raises
DecisionCalled ==
    \/ pc \in {"decision", "h_decision"}
    \/ (pc = "t_init" /\ pc' \in {"t_decided", "t_raised"})

\* C26: if analysis is absent when decision_node is called, it raises before
\* querying long-term memory, before calling the completion service and before
\* persisting anything, and decision and confidence in the state are left unchanged.
C26_AbsentAnalysisFailsFirst ==
    [][(DecisionCalled /\ AnalysisAbsent(state)) =>
          (/\ pc' \in {"t_raised", "error", "h_error"}
           /\ memory' = memory
           /\ response' = response
           /\ last_saved' = last_saved /\ merges' = merges
           /\ state' = state /\ result' = result)]_vars

\* decision_node raised on a state with a question and no analysis, and no
\* collaborator was called
C26_Witness ==
    /\ pc = "t_raised"
    /\ AnalysisAbsent(state)
    /\ Get(state, "question", NoText) \notin {NoText, <<>>}
    /\ memory = NoMemoryCalls /\ response = NoResponse /\ last_saved = <<>>

\* ---------------------------------------------------------------------------
\* C27: attempts is written by the router alone, one more per call

AttemptsOf(s) == Get(s, "attempts", 0)

\* confidence_router is called: as a node of the workflow, or on a state built by hand
RouterNodeStep == pc = "router"

RouterUnitCall == pc = "t_init" /\ pc' = "t_routed"

\* the steps that may write attempts: intake (sets 0), the router node, and the
\* merge of a router result into a hand-built state
MayWriteAttempts == pc \in {"intake", "h_intake", "router", "t_routed"}

\* C27: each call of confidence_router returns attempts equal to the previous value
\* plus exactly 1, for every input state, and no other stage (retrieval, generation,
\* merge, summarizer) changes attempts after intake has set it to 0.
C27_AttemptsOnlyByRouter ==
    [][/\ RouterNodeStep => AttemptsOf(state') = AttemptsOf(state) + 1
       /\ RouterUnitCall => result'["attempts"] = AttemptsOf(state) + 1
       /\ ~MayWriteAttempts => AttemptsOf(state') = AttemptsOf(state)]_vars

\* two router passes behind it, the session is retrieving for its third cycle
C27_Witness ==
    /\ pc = "analyzer" /\ cycles = 3
    /\ routerPasses = 2 /\ state["attempts"] = 2

\* ---------------------------------------------------------------------------
\* C28: the polling loop ends once both producer threads have terminated

Terminated(thread) == thread.status \in {"done", "failed"}

\* both threads are over and the coordinator has taken every message they left
ProducersDrained ==
    /\ Terminated(planner_thread) /\ Terminated(analyzer_thread)
    /\ planner_queue = <<>> /\ analyzer_queue = <<>>

\* C28: whenever both producer threads have terminated, each by completing its stream
\* or by failing, the polling loop terminates after finitely many iterations: once
\* their last messages have been consumed, the loop test finds nothing left to wait
\* for (a coordinator at the loop test with both threads over and both queues empty
\* leaves the loop, for no later iteration can change its flags).
C28_LoopEndsWhenProducersEnd ==
    (pc = "h_loop" /\ ProducersDrained) => (planner_done /\ analyzer_done)

\* ---------------------------------------------------------------------------
\* C29: a session's own records among its similar decisions

\* C29: in a session with retries, the similar_decisions consulted by a later cycle's
\* merge never include a record that an earlier cycle of the same session persisted.
C29_NoOwnRecordConsulted == memory.own_returned = 0

\* ---------------------------------------------------------------------------
\* C30: a page load keeps the files uploaded in this process

\* the files saved by save_uploaded_file since the last clear: they are in the
\* storage directory under a name of this process
UploadedHere == Range(file_manager.storage_dir) \cap StoredNames

\* C30: after a file has been saved with save_uploaded_file and not cleared, every
\* later page load (init_ui_on_load) keeps it in the FileManager's file list, whether
\* or not Hub persistence is active.
C30_ReloadKeepsUploads ==
    pc = "f_loaded" => UploadedHere \subseteq Range(file_manager.files)

=============================================================================
